---- MODULE Spec2Model ----
(***************************************************************************)
(* Model of the weightlifting WOD ETL transforms (src/transforms.py): the  *)
(* text-segmentation pipeline                                              *)
(*   group_post_content_by_day -> segment_days ->                          *)
(*   sessions_to_json_records_by_day -> clean_sessions_df_records          *)
(* Python strings are TLA+ strings, Python lists are sequences, Python     *)
(* dicts are functions whose DOMAIN is the set of keys present.            *)
(***************************************************************************)
EXTENDS Integers, Sequences, FiniteSets, TLC

(***************************************************************************)
(* Bounds of the model.                                                    *)
(***************************************************************************)
MaxLines == 3

(***************************************************************************)
(* A local variable: F applied to the value of v, v being evaluated once.  *)
(***************************************************************************)
With(v, F(_)) == CHOOSE r \in {F(a) : a \in {v}} : r = r

(***************************************************************************)
(* Characters and strings: what Python's str and re do on ASCII text.      *)
(***************************************************************************)
DigitChars == {"0", "1", "2", "3", "4", "5", "6", "7", "8", "9"}

ToLowerMap ==
    [c \in {"A", "B", "C", "D", "E", "F", "G", "H", "I", "J", "K", "L", "M",
            "N", "O", "P", "Q", "R", "S", "T", "U", "V", "W", "X", "Y", "Z"} |->
        CASE c = "A" -> "a" [] c = "B" -> "b" [] c = "C" -> "c" [] c = "D" -> "d"
          [] c = "E" -> "e" [] c = "F" -> "f" [] c = "G" -> "g" [] c = "H" -> "h"
          [] c = "I" -> "i" [] c = "J" -> "j" [] c = "K" -> "k" [] c = "L" -> "l"
          [] c = "M" -> "m" [] c = "N" -> "n" [] c = "O" -> "o" [] c = "P" -> "p"
          [] c = "Q" -> "q" [] c = "R" -> "r" [] c = "S" -> "s" [] c = "T" -> "t"
          [] c = "U" -> "u" [] c = "V" -> "v" [] c = "W" -> "w" [] c = "X" -> "x"
          [] c = "Y" -> "y" [] c = "Z" -> "z"]

UpperChars == DOMAIN ToLowerMap

LowerChars == {ToLowerMap[c] : c \in UpperChars}

\* \w of the re module on ASCII text
WordChars == UpperChars \cup LowerChars \cup DigitChars \cup {"_"}

\* \s of the re module (the whitespace the inputs can carry)
SpaceChars == {" ", "\t"}

\* s[i] (1-based), "" when i is outside s
CharAt(s, i) == IF 1 <= i /\ i <= Len(s) THEN SubSeq(s, i, i) ELSE ""

LowerChar(c) == IF c \in UpperChars THEN ToLowerMap[c] ELSE c

RECURSIVE LowerStr(_)
LowerStr(s) ==
    IF s = "" THEN "" ELSE LowerChar(Head(s)) \o LowerStr(Tail(s))

\* re.search of a literal: is pat a substring of s
Contains(s, pat) ==
    \E i \in 1..(Len(s) - Len(pat) + 1) : SubSeq(s, i, i + Len(pat) - 1) = pat

\* the least element of a non-empty set of integers
Least(S) == CHOOSE i \in S : \A j \in S : i <= j

\* str.find: the first 1-based position of pat in s, 0 when absent
Find(s, pat) ==
    With({i \in 1..(Len(s) - Len(pat) + 1) : SubSeq(s, i, i + Len(pat) - 1) = pat},
         LAMBDA hits : IF hits = {} THEN 0 ELSE Least(hits))

\* str.split(sep): the list of pieces between the occurrences of sep
RECURSIVE Split(_, _)
Split(s, sep) ==
    With(Find(s, sep), LAMBDA p :
        IF p = 0 THEN <<s>>
        ELSE With(SubSeq(s, p + Len(sep), Len(s)), LAMBDA rest :
                <<SubSeq(s, 1, p - 1)>> \o Split(rest, sep)))

\* sep.join(items)
RECURSIVE Join(_, _)
Join(items, sep) ==
    IF items = <<>> THEN ""
    ELSE IF Len(items) = 1 THEN items[1]
    ELSE items[1] \o sep \o Join(Tail(items), sep)

(***************************************************************************)
(* The two marker regexes.                                                 *)
(***************************************************************************)
days == <<"Monday", "Tuesday", "Wednesday", "Thursday", "Friday", "Saturday", "Sunday">>

\* session_regex.search(line): some weekday name occurs in line, any case
session_regex(line) ==
    \E low \in {LowerStr(line)} :
        \E d \in 1..Len(days) : Contains(low, LowerStr(days[d]))

\* segment_regex.search(line): '(Session)|(Suggested Warm-Up)|^[A-F].$', any case
segment_regex(line) ==
    \E low \in {LowerStr(line)} :
        \/ Contains(low, "session")
        \/ Contains(low, "suggested warm-up")
        \/ /\ Len(line) = 2
           /\ CharAt(low, 1) \in {"a", "b", "c", "d", "e", "f"}

(***************************************************************************)
(* The interval partitioning primitive.  Indexes are Python's (0-based).   *)
(***************************************************************************)
\* partition_by, given which items the regex matches: the (idx, item) pairs
RECURSIVE partition_by(_, _, _)
partition_by(hit, source, idx) ==
    IF idx >= Len(source) THEN <<>>
    ELSE (IF hit[idx + 1] THEN <<(<<idx, source[idx + 1]>>)>> ELSE <<>>)
         \o partition_by(hit, source, idx + 1)

\* more_itertools.pairwise over the indices of the matches
get_pairwise_series_indexes(masked_arr) ==
    IF masked_arr = <<>> THEN <<>>
    ELSE [j \in 1..(Len(masked_arr) - 1) |->
            <<masked_arr[j][1], masked_arr[j + 1][1]>>]

\* source[x[0]: x[1]] for every pair x
get_groups(index_list, source) ==
    [j \in 1..Len(index_list) |->
        SubSeq(source, index_list[j][1] + 1, index_list[j][2])]

\* group_source_by, given which items of source the regex matches
group_source_by(hit, source) ==
    With(partition_by(hit, source, 0), LAMBDA matches :
        IF matches = <<>> THEN <<>>
        ELSE With(get_pairwise_series_indexes(matches), LAMBDA weekday_indexes :
                IF Len(weekday_indexes) # 0
                THEN get_groups(
                        Append(weekday_indexes,
                               <<weekday_indexes[Len(weekday_indexes)][2], Len(source)>>),
                        source)
                ELSE get_groups(weekday_indexes, source)))

SessionHits(source) == [i \in 1..Len(source) |-> session_regex(source[i])]

SegmentHits(source) == [i \in 1..Len(source) |-> segment_regex(source[i])]

(***************************************************************************)
(* Calendar dates.  A datetime.date is represented by its proleptic        *)
(* Gregorian ordinal (date.toordinal()); construction, formatting and      *)
(* parsing convert between (year, month, day) and the ordinal.             *)
(***************************************************************************)
MINYEAR == 1

MAXYEAR == 9999

\* the largest day count a C int argument of datetime.date can carry, as digits
CIntMaxDigits == "2147483647"

IsLeap(y) == (y % 4 = 0) /\ ((y % 100 # 0) \/ (y % 400 = 0))

DaysInMonth(y, m) ==
    IF m = 2 THEN (IF IsLeap(y) THEN 29 ELSE 28)
    ELSE IF m \in {4, 6, 9, 11} THEN 30 ELSE 31

DaysBeforeYear(y) ==
    LET p == y - 1 IN p * 365 + (p \div 4) - (p \div 100) + (p \div 400)

RECURSIVE DaysBeforeMonth(_, _)
DaysBeforeMonth(y, m) ==
    IF m <= 1 THEN 0 ELSE DaysBeforeMonth(y, m - 1) + DaysInMonth(y, m - 1)

ToOrdinal(y, m, d) == DaysBeforeYear(y) + DaysBeforeMonth(y, m) + d

MaxOrdinal == ToOrdinal(MAXYEAR, 12, 31)

YearOf(n) ==
    CHOOSE y \in (n \div 366)..((n \div 365) + 1) :
        DaysBeforeYear(y) < n /\ n <= DaysBeforeYear(y + 1)

\* the month of the r-th day of year y
MonthOf(y, r) ==
    CHOOSE m \in 1..12 :
        DaysBeforeMonth(y, m) < r /\ r <= DaysBeforeMonth(y, m) + DaysInMonth(y, m)

\* date.isoweekday(): Monday is 1, Sunday is 7
isoweekday(n) == IF n % 7 = 0 THEN 7 ELSE n % 7

DigitValue(c) ==
    CASE c = "0" -> 0 [] c = "1" -> 1 [] c = "2" -> 2 [] c = "3" -> 3 [] c = "4" -> 4
      [] c = "5" -> 5 [] c = "6" -> 6 [] c = "7" -> 7 [] c = "8" -> 8 [] c = "9" -> 9

DigitOf(v) == CHOOSE c \in DigitChars : DigitValue(c) = v

IsDigits(s) == \A i \in 1..Len(s) : CharAt(s, i) \in DigitChars

RECURSIVE StripZeros(_)
StripZeros(s) ==
    IF Len(s) > 1 /\ Head(s) = "0" THEN StripZeros(Tail(s)) ELSE s

\* lexicographic s <= t for digit strings of equal length
RECURSIVE DigitsLeq(_, _)
DigitsLeq(s, t) ==
    IF s = "" THEN TRUE
    ELSE IF DigitValue(Head(s)) # DigitValue(Head(t))
         THEN DigitValue(Head(s)) < DigitValue(Head(t))
         ELSE DigitsLeq(Tail(s), Tail(t))

\* does int(s) fit the C int that datetime.date converts its arguments to
FitsCInt(s) ==
    LET z == StripZeros(s)
    IN  \/ Len(z) < Len(CIntMaxDigits)
        \/ Len(z) = Len(CIntMaxDigits) /\ DigitsLeq(z, CIntMaxDigits)

\* int(s) for a digit string whose value fits a C int
RECURSIVE PyInt(_)
PyInt(s) ==
    IF s = "" THEN 0
    ELSE PyInt(SubSeq(s, 1, Len(s) - 1)) * 10 + DigitValue(CharAt(s, Len(s)))

\* datetime.date(year, month, int(day)): the date, or the exception it raises
DateCtor(year, month, day) ==
    IF ~FitsCInt(day) THEN [kind |-> "raise", exc |-> "OverflowError"]
    ELSE With(PyInt(day), LAMBDA d :
            IF /\ MINYEAR <= year /\ year <= MAXYEAR
               /\ 1 <= month /\ month <= 12
               /\ 1 <= d /\ d <= DaysInMonth(year, month)
            THEN [kind |-> "date", ord |-> ToOrdinal(year, month, d)]
            ELSE [kind |-> "raise", exc |-> "ValueError"])

RECURSIVE ZeroPad(_, _)
ZeroPad(v, width) ==
    IF width = 0 THEN "" ELSE ZeroPad(v \div 10, width - 1) \o DigitOf(v % 10)

\* str(date) and date.strftime('%Y-%m-%d')
IsoFormat(n) ==
    With(YearOf(n), LAMBDA y :
    With(n - DaysBeforeYear(y), LAMBDA r :
    With(MonthOf(y, r), LAMBDA m :
        ZeroPad(y, 4) \o "-" \o ZeroPad(m, 2) \o "-"
            \o ZeroPad(r - DaysBeforeMonth(y, m), 2))))

\* dateutil parse(s).date() on an ISO-8601 date or timestamp string
ParseDate(s) ==
    IF /\ Len(s) >= 10
       /\ IsDigits(SubSeq(s, 1, 4)) /\ CharAt(s, 5) = "-"
       /\ IsDigits(SubSeq(s, 6, 7)) /\ CharAt(s, 8) = "-"
       /\ IsDigits(SubSeq(s, 9, 10))
       /\ (Len(s) = 10 \/ CharAt(s, 11) \in {"T", " "})
    THEN With(PyInt(SubSeq(s, 1, 4)), LAMBDA year :
         With(PyInt(SubSeq(s, 6, 7)), LAMBDA month :
         With(DateCtor(year, month, SubSeq(s, 9, 10)), LAMBDA r :
            IF r.kind = "date" THEN r ELSE [kind |-> "raise", exc |-> "ParserError"])))
    ELSE [kind |-> "raise", exc |-> "ParserError"]

(***************************************************************************)
(* extract_date_range_from_slug_or_title: the three date patterns and the  *)
(* conversion of a match to a pair of dates.                               *)
(***************************************************************************)
\* the end of the longest run of characters of cls that starts at position p
\* of t (p - 1 when the run is empty): what a greedy cls+ consumes
RunEnd(t, p, cls) ==
    CHOOSE e \in (p - 1)..Len(t) :
        /\ \A i \in p..e : CharAt(t, i) \in cls
        /\ e = Len(t) \/ CharAt(t, e + 1) \notin cls

\* str.replace(old, new)
RECURSIVE Replace(_, _, _)
Replace(s, old, new) ==
    With(Find(s, old), LAMBDA p :
        IF p = 0 THEN s
        ELSE With(SubSeq(s, p + Len(old), Len(s)), LAMBDA rest :
                SubSeq(s, 1, p - 1) \o new \o Replace(rest, old, new)))

NoMatch == [found |-> FALSE]

\* the four groups of a match whose year starts at position y
Groups(t, p, a, d1, b, d2, c, y) ==
    [found |-> TRUE,
     month_str |-> SubSeq(t, p, a),
     day1 |-> SubSeq(t, d1, b),
     day2 |-> SubSeq(t, d2, c),
     year |-> SubSeq(t, y, y + 3)]

\* r'(\w+)-(\d+)-(\d+)-(\d{4})' matched at position p
SlugPatternAt(t, p) ==
    With(RunEnd(t, p, WordChars), LAMBDA a :
        IF ~(a >= p /\ CharAt(t, a + 1) = "-") THEN NoMatch
        ELSE With(RunEnd(t, a + 2, DigitChars), LAMBDA b :
            IF ~(b >= a + 2 /\ CharAt(t, b + 1) = "-") THEN NoMatch
            ELSE With(RunEnd(t, b + 2, DigitChars), LAMBDA c :
                IF /\ c >= b + 2 /\ CharAt(t, c + 1) = "-"
                   /\ RunEnd(t, c + 2, DigitChars) >= c + 5
                THEN Groups(t, p, a, a + 2, b, b + 2, c, c + 2)
                ELSE NoMatch)))

\* r'(\w+)\s+(\d+)-(\d+)<sep>+(\d{4})' matched at position p, where <sep> is
\* [,\s] for the title pattern and \s for the variation pattern
SpacedPatternAt(t, p, sep) ==
    With(RunEnd(t, p, WordChars), LAMBDA a :
        IF a < p THEN NoMatch
        ELSE With(RunEnd(t, a + 1, SpaceChars), LAMBDA w :
            IF w < a + 1 THEN NoMatch
            ELSE With(RunEnd(t, w + 1, DigitChars), LAMBDA b :
                IF ~(b >= w + 1 /\ CharAt(t, b + 1) = "-") THEN NoMatch
                ELSE With(RunEnd(t, b + 2, DigitChars), LAMBDA c :
                    IF c < b + 2 THEN NoMatch
                    ELSE With(RunEnd(t, c + 1, sep), LAMBDA e :
                        IF e >= c + 1 /\ RunEnd(t, e + 1, DigitChars) >= e + 4
                        THEN Groups(t, p, a, w + 1, b, b + 2, c, e + 1)
                        ELSE NoMatch)))))

\* pattern.search(text): the match at the leftmost position that has one
SlugSearch(t) ==
    With({p \in 1..Len(t) : SlugPatternAt(t, p).found}, LAMBDA hits :
        IF hits = {} THEN NoMatch ELSE SlugPatternAt(t, Least(hits)))

SpacedSearch(t, sep) ==
    With({p \in 1..Len(t) : SpacedPatternAt(t, p, sep).found}, LAMBDA hits :
        IF hits = {} THEN NoMatch ELSE SpacedPatternAt(t, Least(hits), sep))

slug_pattern(t) == SlugSearch(t)

title_pattern(t) == SpacedSearch(t, SpaceChars \cup {","})

variation_pattern(t) == SpacedSearch(t, SpaceChars)

\* month_names.get(month_str.lower()); 0 stands for None
month_names(month_str) ==
    With(LowerStr(month_str), LAMBDA m :
        CASE m = "january" -> 1 [] m = "february" -> 2 [] m = "march" -> 3
          [] m = "april" -> 4 [] m = "may" -> 5 [] m = "june" -> 6
          [] m = "july" -> 7 [] m = "august" -> 8 [] m = "september" -> 9
          [] m = "october" -> 10 [] m = "november" -> 11 [] m = "december" -> 12
          [] OTHER -> 0)

NoRange == [kind |-> "none"]

\* the text the patterns are searched in; "" when neither argument is truthy.
\* args is the dict of the keyword arguments that are not None.
ExtractText(args) ==
    IF "slug" \in DOMAIN args /\ args["slug"] # "" THEN args["slug"]
    ELSE IF "title" \in DOMAIN args /\ args["title"] # ""
         THEN Replace(Replace(args["title"], "&#8211;", "-"), "&ndash;", "-")
         ELSE ""

\* the match of the first pattern, in the order slug, title, variation, that has one
ExtractMatch(text) ==
    With(slug_pattern(text), LAMBDA by_slug :
        IF by_slug.found THEN by_slug
        ELSE With(title_pattern(text), LAMBDA by_title :
                IF by_title.found THEN by_title ELSE variation_pattern(text)))

\* the two datetime.date constructions inside the try block
DatesOfMatch(year, month, day1, day2) ==
    With(DateCtor(year, month, day1), LAMBDA start_date :
        IF start_date.kind = "raise"
        THEN (IF start_date.exc = "ValueError" THEN NoRange ELSE start_date)
        ELSE With(DateCtor(year, month, day2), LAMBDA end_date :
                IF end_date.kind = "raise"
                THEN (IF end_date.exc = "ValueError" THEN NoRange ELSE end_date)
                ELSE [kind |-> "range", start |-> start_date.ord, end |-> end_date.ord]))

\* the result is [kind |-> "range", start, end], [kind |-> "none"] for
\* (None, None), or [kind |-> "raise", exc] when an exception escapes
extract_date_range_from_slug_or_title(args) ==
    With(ExtractText(args), LAMBDA text :
        IF text = "" THEN NoRange
        ELSE With(ExtractMatch(text), LAMBDA match :
            IF ~match.found THEN NoRange
            ELSE With(month_names(match.month_str), LAMBDA month :
                IF month = 0 THEN NoRange
                ELSE With(PyInt(match.year), LAMBDA year :
                        DatesOfMatch(year, month, match.day1, match.day2)))))

(***************************************************************************)
(* The pipeline stages of src/transforms.py as functions of their event.   *)
(***************************************************************************)
MetaKeys == {"post_date", "slug", "title"}

\* the value Python's None is represented by (no text of the inputs equals it)
None == "<None>"

\* dict.get(key, default)
Get(d, key, default) == IF key \in DOMAIN d THEN d[key] ELSE default

\* bool(v) for a string or None
Truthy(v) == v # None /\ v # ""

\* group_post_content_by_day(post, ctx) for a dict post
group_post_content_by_day(p) ==
    With(Split(Get(p, "text", ""), "\n"), LAMBDA post_text :
    With(SessionHits(post_text), LAMBDA hit :
    With(group_source_by(hit, post_text), LAMBDA sessions_lists :
    With({k \in MetaKeys : Truthy(Get(p, k, None))}, LAMBDA kept :
        [k \in {"sessions"} \cup kept |->
            IF k = "sessions" THEN sessions_lists ELSE p[k]]))))

\* AddSessionKey taking the first line of the last block
AddSessionKeyLastBlock(x) ==
    IF Len(x) # 0
    THEN <<(<<"session", x[Len(x)][1]>>)>> \o Tail(x)
    ELSE <<(<<"session", "rest day">>)>>

\* the session key added to one day's partitioned blocks x
AddSessionKey(x) ==
    IF Len(x) # 0
    THEN <<(<<"session", x[1][1]>>)>> \o Tail(x)
    ELSE <<(<<"session", "rest day">>)>>

\* segment_days(event, ctx) for the unwrapped event_data
segment_days(event_data) ==
    With([i \in 1..Len(event_data["sessions"]) |->
            With(event_data["sessions"][i], LAMBDA day :
            With(SegmentHits(day), LAMBDA hit :
            With(group_source_by(hit, day), LAMBDA x : AddSessionKey(x))))],
         LAMBDA segmented_sessions :
            [k \in {"segmented_sessions"} \cup (MetaKeys \cap DOMAIN event_data) |->
                IF k = "segmented_sessions" THEN segmented_sessions ELSE event_data[k]])

\* {session[0]: ' '.join(session[1:]) for session in day}: a later block
\* with the same label replaces an earlier one
DayDict(day) ==
    [k \in {day[j][1] : j \in 1..Len(day)} |->
        LET last == CHOOSE j \in 1..Len(day) :
                        /\ day[j][1] = k
                        /\ \A h \in (j + 1)..Len(day) : day[h][1] # k
        IN  Join(Tail(day[last]), " ")]

\* WeekAnchor going back one day whatever the weekday
WeekAnchorOneDayBack(theday) ==
    [kind |-> "ok", theday |-> theday, start |-> theday - 1]

\* the date the week is anchored at and the Sunday before it:
\* [kind |-> "ok", theday, start] or [kind |-> "raise", exc]
WeekAnchor(theday) ==
    [kind |-> "ok", theday |-> theday, start |-> theday - isoweekday(theday)]

ResolveStart(event_data, range, today) ==
    IF range.kind = "range" THEN WeekAnchor(range.start)
    ELSE IF "post_date" \in DOMAIN event_data
    THEN With(ParseDate(event_data["post_date"]), LAMBDA parsed :
            IF parsed.kind = "raise" THEN parsed ELSE WeekAnchor(parsed.ord))
    ELSE WeekAnchor(today)

\* DateList starting one day late
DateListFromOne(start, n) == [d \in 1..(n + 1) |-> start + d]

\* dates = [start + timedelta(days=d) for d in range(n + 1)]
DateList(start, n) == [d \in 1..(n + 1) |-> start + (d - 1)]

\* the records of the days, record idx dated dates[idx + 1]
SessionRecords(dates, segmented_sessions) ==
    [i \in 1..Len(segmented_sessions) |->
        With(DayDict(segmented_sessions[i]), LAMBDA session :
            [k \in {"date"} \cup DOMAIN session |->
                IF k \in DOMAIN session THEN session[k] ELSE IsoFormat(dates[i + 1])])]

\* the non-fatal validation of the session dates against the extracted range:
\* min() and max() of the parsed record dates raise on an empty list
ValidateRange(range, session_records) ==
    IF range.kind = "range" /\ session_records = <<>>
    THEN [kind |-> "raise", exc |-> "ValueError"]
    ELSE [kind |-> "ok"]

\* sessions_to_json_records_by_day(event, ctx) for the unwrapped event_data:
\* [kind |-> "ok", value |-> records] or [kind |-> "raise", exc]
sessions_to_json_records_by_day(event_data, today) ==
    With([k \in {"slug", "title"} \cap DOMAIN event_data |-> event_data[k]], LAMBDA a :
    With(extract_date_range_from_slug_or_title(a), LAMBDA range :
        IF range.kind = "raise" THEN range
        ELSE With(ResolveStart(event_data, range, today), LAMBDA anchor :
            IF anchor.kind = "raise" THEN anchor
            ELSE With(Len(event_data["segmented_sessions"]), LAMBDA n :
                IF anchor.start < 1 \/ anchor.start + n > MaxOrdinal
                THEN [kind |-> "raise", exc |-> "OverflowError"]
                ELSE With(DateList(anchor.start, n), LAMBDA dates :
                     With(SessionRecords(dates, event_data["segmented_sessions"]),
                          LAMBDA session_records :
                     With(ValidateRange(range, session_records), LAMBDA valid :
                        IF valid.kind = "raise" THEN valid
                        ELSE [kind |-> "ok", value |-> session_records])))))))

\* column_mapping without the entry of 'E.'
column_mappingWithoutE(old_key) ==
    CASE old_key = "Suggested Warm-Up" -> "warm_up"
      [] old_key = "A." -> "segment_a" [] old_key = "B." -> "segment_b"
      [] old_key = "C." -> "segment_c" [] old_key = "D." -> "segment_d"
      [] OTHER -> old_key

column_mapping(old_key) ==
    CASE old_key = "Suggested Warm-Up" -> "warm_up"
      [] old_key = "A." -> "segment_a" [] old_key = "B." -> "segment_b"
      [] old_key = "C." -> "segment_c" [] old_key = "D." -> "segment_d"
      [] old_key = "E." -> "segment_e"
      [] OTHER -> old_key

expected_fields == {"warm_up", "segment_a", "segment_b", "segment_c", "segment_d", "segment_e"}

\* the renamed record without the 's' and 'r' columns (no two keys of a
\* record of the pipeline are renamed to the same key)
Renamed(record) ==
    LET new_keys == {column_mapping(k) : k \in DOMAIN record} \ {"s", "r"}
    IN  [nk \in new_keys |->
            IF nk \in DOMAIN record /\ column_mapping(nk) = nk
            THEN record[nk]
            ELSE record[CHOOSE k \in DOMAIN record : column_mapping(k) = nk]]

\* one record of clean_sessions_df_records
CleanRecord(record) ==
    With(Renamed(record), LAMBDA renamed :
    With([k \in DOMAIN renamed |->
            IF k = "date" THEN IsoFormat(ParseDate(renamed[k]).ord)
            ELSE renamed[k]], LAMBDA dated :
    With([k \in DOMAIN dated \cup {"session"} |->
            IF k = "session" /\ Get(dated, "session", None) = None
            THEN "Rest Day" ELSE dated[k]], LAMBDA with_session :
    With([k \in DOMAIN with_session \cup expected_fields |->
            IF k \in DOMAIN with_session THEN with_session[k] ELSE ""], LAMBDA filled :
        [k \in DOMAIN filled |-> IF filled[k] = None THEN "" ELSE filled[k]]))))

\* clean_sessions_df_records(event, ctx) for a list of records
clean_sessions_df_records(recs) == [i \in 1..Len(recs) |-> CleanRecord(recs[i])]

(***************************************************************************)
(* The inputs.                                                             *)
(***************************************************************************)
LineVocab == {"Monday (Session One)", "Tuesday", "A.", "3x5 snatch"}

TextInputs ==
    {Join(ls, "\n") : ls \in UNION {[1..k -> LineVocab] : k \in 0..MaxLines}}

\* None stands for a post without the key
SlugInputs ==
    {None, "", "april-1-7-2024", "april-3-9-2024", "weekly-program", "february-30-31-2024"}

TitleInputs == {None, "May 8-14, 2024 &#8211; Program"}

PostDateInputs == {None, "2024-06-03T10:00:00", "2024-06-05T10:00:00"}

TodayInputs == {ToOrdinal(2026, 11, 6), ToOrdinal(2026, 11, 9)}

\* the normalized post: text plus the metadata keys that are present
MakePost(text, slug, title, post_date) ==
    LET given == [k \in {"text"} \cup MetaKeys |->
                    CASE k = "text" -> text [] k = "slug" -> slug
                      [] k = "title" -> title [] k = "post_date" -> post_date]
    IN  [k \in {k \in DOMAIN given : given[k] # None} |-> given[k]]

\* the keyword arguments of extract_date_range_from_slug_or_title
ExtractSlugInputs ==
    {None, "", "april-1-7-2024-5-day-weightlifting-program", "APRIL-1-7-2024",
     "april-7-1-2024", "february-30-31-2024-invalid", "february-29-29-2024",
     "february-29-29-2023", "some-random-slug-without-dates", "5-day-1-2-3-2024",
     "april-1-7-0000", "april-2147483647-1-2024", "april-2147483648-1-2024",
     "april-1-99999999999-2024"}

ExtractTitleInputs ==
    {None, "", "April 1-7, 2024 &#8211; 5 Day Weightlifting Program",
     "April 1-7, 2024 &ndash; 5 Day Weightlifting Program",
     "April 1-7 2024 5 Day Weightlifting Program", "May 12-6, 2024",
     "June 31-31, 2024", "Weightlifting Program"}

MakeArgs(slug, title) ==
    LET given == [k \in {"slug", "title"} |-> IF k = "slug" THEN slug ELSE title]
    IN  [k \in {k \in DOMAIN given : given[k] # None} |-> given[k]]

\* the value a key that a record does not carry is drawn as
Absent == "<absent>"

\* the records clean_sessions_df_records is called with: the keys
\* sessions_to_json_records_by_day writes (date, session, block labels), each
\* present or not, a present value being a text, the empty text or None
MakeRecord(date, session, warm_up, a, e, f, s_col) ==
    LET given == [k \in {"date", "session", "Suggested Warm-Up", "A.", "E.", "F.", "s"} |->
                    CASE k = "date" -> date [] k = "session" -> session
                      [] k = "Suggested Warm-Up" -> warm_up [] k = "A." -> a
                      [] k = "E." -> e [] k = "F." -> f [] k = "s" -> s_col]
    IN  [k \in {k \in DOMAIN given : given[k] # Absent} |-> given[k]]

RecordInputs ==
    {MakeRecord(d, ses, w, a, e, f, sc) :
        d \in {Absent, "2024-04-01"},
        ses \in {Absent, None, "", "Monday (Session One)"},
        w \in {Absent, "row 500m"},
        a \in {Absent, None, "", "3x5 snatch"},
        e \in {Absent, "core"},
        f \in {Absent, "plank"},
        sc \in {Absent, "x"}}

\* the day segments segment_days is called with (each starts at a weekday line)
DayInputs ==
    {<<"Monday (Session One)", "Suggested Warm-Up", "row 500m", "A.", "3x5 snatch",
       "F.", "plank">>,
     <<"Tuesday", "A.", "3x5 snatch", "B.", "5x3 squat">>,
     <<"Wednesday">>,
     <<"Thursday (Session Two)", "Session notes", "go easy">>,
     <<"Friday", "a.", "jerk">>,
     <<"Saturday (Session One)", "C.", "pull", "D.", "press", "E.", "core">>}

\* the events of segment_days: up to two day segments and the metadata kept
GroupedInputs ==
    {[k \in {"sessions", "post_date"} \cup (IF slug = Absent THEN {} ELSE {"slug"}) |->
        CASE k = "sessions" -> ds [] k = "post_date" -> "2024-06-05T10:00:00"
          [] k = "slug" -> slug] :
        ds \in UNION {[1..n -> DayInputs] : n \in 0..2},
        slug \in {Absent, "april-1-7-2024"}}

(***************************************************************************)
(* The persistence handlers and the two stores.                            *)
(***************************************************************************)
MaxInvocations == 2

\* a dict with key k set to v, and without key k
DictPut(f, k, v) == [x \in DOMAIN f \cup {k} |-> IF x = k THEN v ELSE f[x]]

DictDel(f, k) == [x \in DOMAIN f \ {k} |-> f[x]]

\* hashlib.sha256(s).hexdigest(): distinct texts are taken to have distinct digests
Sha256(s) == <<"sha256", s>>

\* IdempotencyService.generate_key
generate_key(operation, identifier) == Sha256(operation \o ":" \o identifier)

NoKey == <<>>

\* bucket_path of dump_post_to_bucket
RawPath(p) ==
    With(ParseDate(p["date"]), LAMBDA posted :
        "raw/" \o IsoFormat(posted.ord) \o "__" \o p["slug"] \o "__raw.json")

\* SaveDates taking the first day of the calendar for a record without a date
RECURSIVE SaveDatesDefaulted(_)
SaveDatesDefaulted(recs) ==
    IF recs = <<>> THEN <<>>
    ELSE (IF "date" \in DOMAIN Head(recs)
          THEN <<ParseDate(Head(recs)["date"]).ord>> ELSE <<1>>)
            \o SaveDatesDefaulted(Tail(recs))

\* the dates list of save_sessions_to_bucket: the dates of the records that have one
RECURSIVE SaveDates(_)
SaveDates(recs) ==
    IF recs = <<>> THEN <<>>
    ELSE (IF "date" \in DOMAIN Head(recs)
          THEN <<ParseDate(Head(recs)["date"]).ord>> ELSE <<>>) \o SaveDates(Tail(recs))

\* the records with record['date'] rewritten as YYYY-MM-DD
SaveRecords(recs) ==
    [i \in 1..Len(recs) |->
        [k \in DOMAIN recs[i] |->
            IF k = "date" THEN IsoFormat(ParseDate(recs[i][k]).ord) ELSE recs[i][k]]]

\* bucket_path of save_sessions_to_bucket for a non-empty list of dates
WeeklyPath(dates) ==
    With({dates[i] : i \in 1..Len(dates)}, LAMBDA ds :
        "weekly/" \o IsoFormat(Least(ds)) \o "__"
            \o IsoFormat(CHOOSE d \in ds : \A o \in ds : o <= d)
            \o "--5-day-weightlifting-program.json")

NoPost == [slug |-> "", date |-> "", title |-> ""]

PostInputs2 ==
    {[slug |-> "test-post", date |-> "2024-01-01T10:00:00", title |-> "Test Post"],
     [slug |-> "other-post", date |-> "2024-01-08T10:00:00", title |-> "Other Post"]}

BatchInputs ==
    {<<[date |-> "2024-01-01", session |-> "session-1"],
       [date |-> "2024-01-02T00:00:00", session |-> "session-2"]>>,
     <<[session |-> "session-1"]>>,
     <<>>}

\* the events the two persistence handlers are invoked with
Events ==
    {[handler |-> "dump_post_to_bucket", post |-> p, records |-> <<>>] : p \in PostInputs2}
        \cup {[handler |-> "save_sessions_to_bucket", post |-> NoPost, records |-> b] :
                    b \in BatchInputs}

NoResponse == [kind |-> "", type |-> "", post |-> NoPost, records |-> <<>>]

\* what lambda_handler returns: the handler's result, or the error response of
\* the exception the handler raised
Success(p, recs) == [kind |-> "success", type |-> "", post |-> p, records |-> recs]

ErrorResponse(type) == [kind |-> "error", type |-> type, post |-> NoPost, records |-> <<>>]

\* an invocation that has not started
IdleInvocation ==
    [pc |-> "idle", event |-> [handler |-> "", post |-> NoPost, records |-> <<>>],
     path |-> "", key |-> NoKey, checked |-> "", exists |-> "", put |-> "", mark |-> "",
     response |-> NoResponse]

(***************************************************************************)
(* The state machines.                                                     *)
(***************************************************************************)
VARIABLES
    pc,         \* the stage the post has reached
    post,       \* the normalized post
    today,      \* datetime.date.today() of the run
    grouped,    \* the result of group_post_content_by_day
    segmented,  \* the result of segment_days
    records,    \* the result of sessions_to_json_records_by_day
    cleaned,    \* the result of clean_sessions_df_records
    raised,     \* the exception that ended the pipeline, "" when none
    epc,        \* "call" before and "done" after a call of the extraction
    args,       \* keyword arguments of extract_date_range_from_slug_or_title
    result,     \* its result
    bucket,     \* the object store: key |-> body
    table,      \* the idempotency table: idempotency_key |-> "live" or "expired" (ttl passed)
    table_name, \* config.idempotency_table ("" when IDEMPOTENCY_TABLE is not set)
    s3_faulty,  \* whether calls of the object store may fail
    ddb_faulty, \* whether calls of the idempotency table may fail
    inv,        \* the invocations of the persistence handlers
    overlapped  \* whether an invocation has started while another was running

vars == <<pc, post, today, grouped, segmented, records, cleaned, raised, epc, args, result,
          bucket, table, table_name, s3_faulty, ddb_faulty, inv, overlapped>>

storeVars == <<bucket, table, table_name, s3_faulty, ddb_faulty, inv, overlapped>>

StoreIdle ==
    /\ bucket = <<>> /\ table = <<>> /\ table_name = ""
    /\ s3_faulty = FALSE /\ ddb_faulty = FALSE
    /\ inv = [i \in 1..MaxInvocations |-> IdleInvocation]
    /\ overlapped = FALSE

pipeVars == <<pc, post, today, grouped, segmented, records, cleaned, raised>>

extractVars == <<epc, args, result>>

PipeIdle ==
    /\ pc = "idle" /\ post = [text |-> ""] /\ today = 0
    /\ grouped = [sessions |-> <<>>] /\ segmented = [segmented_sessions |-> <<>>]
    /\ records = <<>> /\ cleaned = <<>> /\ raised = ""

ExtractIdle == epc = "idle" /\ args = <<>> /\ result = NoRange

Init ==
    /\ pc = "post"
    /\ post \in {MakePost(t, s, ti, d) :
                    t \in TextInputs, s \in SlugInputs, ti \in TitleInputs, d \in PostDateInputs}
    /\ today \in TodayInputs
    /\ grouped = [sessions |-> <<>>]
    /\ segmented = [segmented_sessions |-> <<>>]
    /\ records = <<>>
    /\ cleaned = <<>>
    /\ raised = ""
    /\ ExtractIdle
    /\ StoreIdle

GroupPostContentByDay ==
    /\ pc = "post"
    /\ grouped' = group_post_content_by_day(post)
    /\ pc' = "grouped"
    /\ UNCHANGED <<post, today, segmented, records, cleaned, raised, extractVars, storeVars>>

SegmentDays ==
    /\ pc = "grouped"
    /\ segmented' = segment_days(grouped)
    /\ pc' = "segmented"
    /\ UNCHANGED <<post, today, grouped, records, cleaned, raised, extractVars, storeVars>>

SessionsToJsonRecordsByDay ==
    /\ pc = "segmented"
    /\ \E r \in {sessions_to_json_records_by_day(segmented, today)} :
           IF r.kind = "raise"
           THEN /\ raised' = r.exc
                /\ pc' = "failed"
                /\ UNCHANGED records
           ELSE /\ records' = r.value
                /\ pc' = "records"
                /\ UNCHANGED raised
    /\ UNCHANGED <<post, today, grouped, segmented, cleaned, extractVars, storeVars>>

CleanSessionsDfRecords ==
    /\ pc = "records"
    /\ cleaned' = clean_sessions_df_records(records)
    /\ pc' = "cleaned"
    /\ UNCHANGED <<post, today, grouped, segmented, records, raised, extractVars, storeVars>>

Next ==
    \/ GroupPostContentByDay
    \/ SegmentDays
    \/ SessionsToJsonRecordsByDay
    \/ CleanSessionsDfRecords

Spec == Init /\ [][Next]_vars

\* extract_date_range_from_slug_or_title called on its own
InitExtract ==
    /\ PipeIdle
    /\ epc = "call"
    /\ args \in {MakeArgs(s, t) : s \in ExtractSlugInputs, t \in ExtractTitleInputs}
    /\ result = NoRange
    /\ StoreIdle

ExtractDateRange ==
    /\ epc = "call"
    /\ result' = extract_date_range_from_slug_or_title(args)
    /\ epc' = "done"
    /\ UNCHANGED <<args, pipeVars, storeVars>>

NextExtract == ExtractDateRange

SpecExtract == InitExtract /\ [][NextExtract]_vars

\* clean_sessions_df_records called on its own with a list of records
InitClean ==
    /\ pc = "records"
    /\ records \in {<<>>} \cup {<<r>> : r \in RecordInputs}
    /\ post = [text |-> ""] /\ today = 0
    /\ grouped = [sessions |-> <<>>] /\ segmented = [segmented_sessions |-> <<>>]
    /\ cleaned = <<>> /\ raised = ""
    /\ ExtractIdle
    /\ StoreIdle

NextClean == CleanSessionsDfRecords

SpecClean == InitClean /\ [][NextClean]_vars

\* the chain from segment_days on, started with the day segments of a post
InitDays ==
    /\ pc = "grouped"
    /\ grouped \in GroupedInputs
    /\ post = [text |-> ""] /\ today = 0
    /\ segmented = [segmented_sessions |-> <<>>]
    /\ records = <<>> /\ cleaned = <<>> /\ raised = ""
    /\ ExtractIdle
    /\ StoreIdle

NextDays ==
    \/ SegmentDays
    \/ SessionsToJsonRecordsByDay
    \/ CleanSessionsDfRecords

SpecDays == InitDays /\ [][NextDays]_vars

\* the persistence handlers invoked against the two stores, empty at first
InitStore ==
    /\ PipeIdle
    /\ ExtractIdle
    /\ bucket = <<>>
    /\ table = <<>>
    /\ table_name \in {"", "idempotency-table"}
    /\ s3_faulty \in BOOLEAN
    /\ ddb_faulty \in BOOLEAN
    /\ inv = [i \in 1..MaxInvocations |-> IdleInvocation]
    /\ overlapped = FALSE

Running(i) == inv[i].pc \notin {"idle", "done"}

\* invocation i ends with response r
Return(i, r) == [inv[i] EXCEPT !.pc = "done", !.response = r]

\* the handler is invoked with event e and runs up to its first store call
\* (invocations are numbered in the order they start)
Invoke(i) ==
    /\ inv[i].pc = "idle"
    /\ \A j \in 1..(i - 1) : inv[j].pc # "idle"
    /\ \E e \in Events :
        \E started \in {[inv[i] EXCEPT !.event = e]} :
           inv' = [inv EXCEPT ![i] =
                IF e.handler = "dump_post_to_bucket"
                THEN With(RawPath(e.post), LAMBDA bucket_path :
                        [started EXCEPT !.pc = "check", !.path = bucket_path,
                            !.key = generate_key("dump_post_to_bucket", bucket_path)])
                ELSE With(SaveDates(e.records), LAMBDA dates :
                        IF dates = <<>>
                        THEN [started EXCEPT !.pc = "done",
                                !.response = ErrorResponse("ValidationError")]
                        ELSE [started EXCEPT !.pc = "exists",
                                !.path = WeeklyPath(dates)])]
    /\ overlapped' = (overlapped \/ \E j \in 1..MaxInvocations : j # i /\ Running(j))
    /\ UNCHANGED <<bucket, table, table_name, s3_faulty, ddb_faulty, pipeVars, extractVars>>

\* IdempotencyCheck going on to the existence check whatever check returned
IdempotencyCheckIgnored(i) ==
    /\ inv[i].pc = "check"
    /\ \E found \in (IF table_name = "" THEN {"unconfigured"}
                     ELSE {IF inv[i].key \in DOMAIN table THEN "yes" ELSE "no"}
                            \cup (IF ddb_faulty THEN {"failed"} ELSE {})) :
           inv' = [inv EXCEPT ![i] = [inv[i] EXCEPT !.pc = "exists", !.checked = found]]
    /\ UNCHANGED <<bucket, table, table_name, s3_faulty, ddb_faulty, overlapped,
                   pipeVars, extractVars>>

\* IdempotencyCheck letting the exception of get_item through
IdempotencyCheckFailClosed(i) ==
    /\ inv[i].pc = "check"
    /\ \E found \in (IF table_name = "" THEN {"unconfigured"}
                     ELSE {IF inv[i].key \in DOMAIN table THEN "yes" ELSE "no"}
                            \cup (IF ddb_faulty THEN {"failed"} ELSE {})) :
           inv' = [inv EXCEPT ![i] =
                CASE found = "yes" ->
                        [Return(i, Success(inv[i].event.post, <<>>)) EXCEPT !.checked = found]
                  [] found = "failed" ->
                        [Return(i, ErrorResponse("ClientError")) EXCEPT !.checked = found]
                  [] OTHER -> [inv[i] EXCEPT !.pc = "exists", !.checked = found]]
    /\ UNCHANGED <<bucket, table, table_name, s3_faulty, ddb_faulty, overlapped,
                   pipeVars, extractVars>>

\* idempotency_service.check(idempotency_key) of dump_post_to_bucket:
\* "yes" (a record is there), "no", "unconfigured" or "failed" (get_item raised)
IdempotencyCheck(i) ==
    /\ inv[i].pc = "check"
    /\ \E found \in (IF table_name = "" THEN {"unconfigured"}
                     ELSE {IF inv[i].key \in DOMAIN table THEN "yes" ELSE "no"}
                            \cup (IF ddb_faulty THEN {"failed"} ELSE {})) :
           inv' = [inv EXCEPT ![i] =
                IF found = "yes"
                THEN [Return(i, Success(inv[i].event.post, <<>>)) EXCEPT !.checked = found]
                ELSE [inv[i] EXCEPT !.pc = "exists", !.checked = found]]
    /\ UNCHANGED <<bucket, table, table_name, s3_faulty, ddb_faulty, overlapped,
                   pipeVars, extractVars>>

\* ObjectExists answering False whatever the bucket holds
ObjectExistsNever(i) ==
    /\ inv[i].pc = "exists"
    /\ inv' = [inv EXCEPT ![i] = [inv[i] EXCEPT !.pc = "put", !.exists = "no"]]
    /\ UNCHANGED <<bucket, table, table_name, s3_faulty, ddb_faulty, overlapped,
                   pipeVars, extractVars>>

\* ObjectExists answering True when head_object fails
ObjectExistsAssumed(i) ==
    /\ inv[i].pc = "exists"
    /\ \E found \in {IF inv[i].path \in DOMAIN bucket THEN "yes" ELSE "no"}
                        \cup (IF s3_faulty THEN {"failed"} ELSE {}) :
           inv' = [inv EXCEPT ![i] =
                CASE found \in {"yes", "failed"}
                        /\ inv[i].event.handler = "dump_post_to_bucket" ->
                        [inv[i] EXCEPT !.pc = "mark", !.exists = found]
                  [] found \in {"yes", "failed"}
                        /\ inv[i].event.handler = "save_sessions_to_bucket" ->
                        [Return(i, Success(NoPost, SaveRecords(inv[i].event.records)))
                            EXCEPT !.exists = found]
                  [] OTHER -> [inv[i] EXCEPT !.pc = "put", !.exists = found]]
    /\ UNCHANGED <<bucket, table, table_name, s3_faulty, ddb_faulty, overlapped,
                   pipeVars, extractVars>>

\* s3_service.object_exists(bucket_path): "yes", "no", "failed" (head_object
\* raised a ClientError other than 404: False) or "raised" (head_object raised
\* an exception that is not a ClientError, which object_exists lets through)
ObjectExists(i) ==
    /\ inv[i].pc = "exists"
    /\ \E found \in {IF inv[i].path \in DOMAIN bucket THEN "yes" ELSE "no"}
                        \cup (IF s3_faulty THEN {"failed", "raised"} ELSE {}) :
           inv' = [inv EXCEPT ![i] =
                CASE found = "raised" ->
                        [Return(i, ErrorResponse("BotoCoreError")) EXCEPT !.exists = found]
                  [] found = "yes" /\ inv[i].event.handler = "dump_post_to_bucket" ->
                        [inv[i] EXCEPT !.pc = "mark", !.exists = found]
                  [] found = "yes" /\ inv[i].event.handler = "save_sessions_to_bucket" ->
                        [Return(i, Success(NoPost, SaveRecords(inv[i].event.records)))
                            EXCEPT !.exists = found]
                  [] OTHER -> [inv[i] EXCEPT !.pc = "put", !.exists = found]]
    /\ UNCHANGED <<bucket, table, table_name, s3_faulty, ddb_faulty, overlapped,
                   pipeVars, extractVars>>

\* PutObject reporting success without storing the object
PutObjectLost(i) ==
    /\ inv[i].pc = "put"
    /\ inv' = [inv EXCEPT ![i] =
            IF inv[i].event.handler = "dump_post_to_bucket"
            THEN [inv[i] EXCEPT !.pc = "mark", !.put = "ok"]
            ELSE [Return(i, Success(NoPost, SaveRecords(inv[i].event.records)))
                    EXCEPT !.put = "ok"]]
    /\ UNCHANGED <<bucket, table, table_name, s3_faulty, ddb_faulty, overlapped,
                   pipeVars, extractVars>>

\* s3_service.put_json_object / put_json_lines: the object is stored, or the
\* put raises and the handler ends with the error response
PutObject(i) ==
    /\ inv[i].pc = "put"
    /\ \/ /\ bucket' = DictPut(bucket, inv[i].path,
                    IF inv[i].event.handler = "dump_post_to_bucket"
                    THEN [post |-> inv[i].event.post, records |-> <<>>]
                    ELSE [post |-> NoPost, records |-> SaveRecords(inv[i].event.records)])
          /\ inv' = [inv EXCEPT ![i] =
                IF inv[i].event.handler = "dump_post_to_bucket"
                THEN [inv[i] EXCEPT !.pc = "mark", !.put = "ok"]
                ELSE [Return(i, Success(NoPost, SaveRecords(inv[i].event.records)))
                        EXCEPT !.put = "ok"]]
       \/ /\ s3_faulty
          /\ inv' = [inv EXCEPT ![i] =
                        [Return(i, ErrorResponse("ClientError")) EXCEPT !.put = "raised"]]
          /\ UNCHANGED bucket
    /\ UNCHANGED <<table, table_name, s3_faulty, ddb_faulty, overlapped,
                   pipeVars, extractVars>>

\* MarkComplete returning without writing the record
MarkCompleteDropped(i) ==
    /\ inv[i].pc = "mark"
    /\ inv' = [inv EXCEPT ![i] =
                [Return(i, Success(inv[i].event.post, <<>>)) EXCEPT !.mark = "ok"]]
    /\ UNCHANGED <<bucket, table, table_name, s3_faulty, ddb_faulty, overlapped,
                   pipeVars, extractVars>>

\* MarkComplete letting the exception of put_item through
MarkCompleteRaising(i) ==
    /\ inv[i].pc = "mark"
    /\ \E done \in (IF table_name = "" THEN {"unconfigured"}
                    ELSE {"ok"} \cup (IF ddb_faulty THEN {"failed"} ELSE {})) :
        /\ table' = IF done = "ok" THEN DictPut(table, inv[i].key, "live") ELSE table
        /\ inv' = [inv EXCEPT ![i] =
                    IF done = "failed"
                    THEN [Return(i, ErrorResponse("ClientError")) EXCEPT !.mark = done]
                    ELSE [Return(i, Success(inv[i].event.post, <<>>)) EXCEPT !.mark = done]]
    /\ UNCHANGED <<bucket, table_name, s3_faulty, ddb_faulty, overlapped,
                   pipeVars, extractVars>>

\* idempotency_service.mark_complete(idempotency_key) and the return of the
\* post: the record is written ("ok"), or the table is unconfigured, or
\* put_item raised ("failed"), which mark_complete only logs
MarkComplete(i) ==
    /\ inv[i].pc = "mark"
    /\ \E done \in (IF table_name = "" THEN {"unconfigured"}
                    ELSE {"ok"} \cup (IF ddb_faulty THEN {"failed"} ELSE {})) :
        /\ table' = IF done = "ok" THEN DictPut(table, inv[i].key, "live") ELSE table
        /\ inv' = [inv EXCEPT ![i] =
                    [Return(i, Success(inv[i].event.post, <<>>)) EXCEPT !.mark = done]]
    /\ UNCHANGED <<bucket, table_name, s3_faulty, ddb_faulty, overlapped,
                   pipeVars, extractVars>>

\* the ttl of a record passes
TtlExpire ==
    /\ \E k \in DOMAIN table :
        /\ table[k] = "live"
        /\ table' = DictPut(table, k, "expired")
    /\ UNCHANGED <<bucket, table_name, s3_faulty, ddb_faulty, inv, overlapped,
                   pipeVars, extractVars>>

\* the table removes a record whose ttl has passed
TtlDelete ==
    /\ \E k \in DOMAIN table :
        /\ table[k] = "expired"
        /\ table' = DictDel(table, k)
    /\ UNCHANGED <<bucket, table_name, s3_faulty, ddb_faulty, inv, overlapped,
                   pipeVars, extractVars>>

NextStore ==
    \/ \E i \in 1..MaxInvocations :
            \/ Invoke(i)
            \/ IdempotencyCheck(i)
            \/ ObjectExists(i)
            \/ PutObject(i)
            \/ MarkComplete(i)
    \/ TtlExpire
    \/ TtlDelete

SpecStore == InitStore /\ [][NextStore]_vars

\* ---- generate_key on pairs of (operation, identifier) ----

\* operations: the handler names, and names with and without the separator
OperationInputs == {"dump_post_to_bucket", "different_operation", "a", "a:b"}

\* identifiers: paths, and strings with and without the separator
IdentifierInputs ==
    {"raw/2024-01-01__test-post__raw.json", "different-identifier", "c", "b:c"}

\* two calls of generate_key are about to be made
InitKey ==
    /\ PipeIdle
    /\ StoreIdle
    /\ epc = "call"
    /\ args \in {[first |-> [operation |-> o1, identifier |-> i1],
                  second |-> [operation |-> o2, identifier |-> i2]] :
                    o1 \in OperationInputs, i1 \in IdentifierInputs,
                    o2 \in OperationInputs, i2 \in IdentifierInputs}
    /\ result = <<>>

\* IdempotencyService.generate_key(operation, identifier) for each pair
GenerateKeys ==
    /\ epc = "call"
    /\ result' = <<generate_key(args.first.operation, args.first.identifier),
                   generate_key(args.second.operation, args.second.identifier)>>
    /\ epc' = "done"
    /\ UNCHANGED <<args, pipeVars, storeVars>>

NextKey == GenerateKeys

SpecKey == InitKey /\ [][NextKey]_vars

(***************************************************************************)
(* Properties of the interval partitioning and of the day segmenter.       *)
(***************************************************************************)
Grouped == pc \in {"grouped", "segmented", "records", "cleaned", "failed"}

Segmented == pc \in {"segmented", "records", "cleaned", "failed"}

Recorded == pc \in {"records", "cleaned"}

\* the line sequence of the post and the positions of its weekday lines
PostLines == Split(Get(post, "text", ""), "\n")

Markers == {i \in 1..Len(PostLines) : session_regex(PostLines[i])}

\* the j-th smallest element of a set of positions
Nth(M, j) == CHOOSE i \in M : Cardinality({h \in M : h <= i}) = j

RECURSIVE Concat(_)
Concat(groups) == IF groups = <<>> THEN <<>> ELSE Head(groups) \o Concat(Tail(groups))

\* C1: when k >= 1 items of the source match the marker, group_source_by
\* returns exactly k groups, group j running from the j-th matching item to
\* just before the (j+1)-th and the last group to the end of the source
\* (k = 1 included: the single group is source[i:]).
C1_OneGroupPerMarker ==
    Grouped =>
        LET k == Cardinality(Markers)
        IN  k >= 1 =>
                /\ Len(grouped["sessions"]) = k
                /\ \A j \in 1..k :
                      grouped["sessions"][j] =
                          SubSeq(PostLines, Nth(Markers, j),
                                 IF j < k THEN Nth(Markers, j + 1) - 1 ELSE Len(PostLines))

\* C2: the day segments, concatenated in order, are the suffix of the line
\* sequence that starts at the first weekday line; only the lines before the
\* first weekday line are in no segment.
C2_SegmentsCoverSuffix ==
    Grouped =>
        Concat(grouped["sessions"]) =
            (IF Markers = {} THEN <<>>
             ELSE SubSeq(PostLines, Nth(Markers, 1), Len(PostLines)))

(***************************************************************************)
(* Properties of the block segmenter.                                      *)
(***************************************************************************)
\* the blocks the interval partitioning yields for a day segment
Blocks(day) == group_source_by(SegmentHits(day), day)

\* the first line of a day segment that matches a sub-header marker
FirstHeaderLine(day) ==
    day[CHOOSE j \in 1..Len(day) :
            /\ segment_regex(day[j])
            /\ \A h \in 1..(j - 1) : ~segment_regex(day[h])]

\* the end of the leftmost weekday name in a line that has one
WeekdayEnd(line) ==
    LET low == LowerStr(line)
        ends == {Find(low, LowerStr(days[d])) + Len(days[d]) - 1 :
                    d \in {e \in 1..Len(days) : Contains(low, LowerStr(days[e]))}}
    IN  CHOOSE p \in ends : \A q \in ends : p <= q

RECURSIVE LStrip(_)
LStrip(s) == IF s # "" /\ Head(s) \in SpaceChars THEN LStrip(Tail(s)) ELSE s

\* the part of a weekday line that follows the weekday name
TrailingText(line) == LStrip(SubSeq(line, WeekdayEnd(line) + 1, Len(line)))

\* C7: for a day whose partitioning yields g >= 1 blocks, the output is the
\* synthetic session block followed by all g blocks in their order.
C7_SessionBlockPrepended ==
    Segmented =>
        \A i \in 1..Len(grouped["sessions"]) :
            LET x == Blocks(grouped["sessions"][i])
                out == segmented["segmented_sessions"][i]
            IN  Len(x) >= 1 =>
                    /\ Len(out) = Len(x) + 1
                    /\ out[1][1] = "session"
                    /\ Tail(out) = x

\* C8 as claimed: the body of the session block is the part of the day's
\* weekday line after the weekday name.
C8_SessionTextIsTrailingText ==
    Segmented =>
        \A i \in 1..Len(grouped["sessions"]) :
            Len(Blocks(grouped["sessions"][i])) >= 1 =>
                segmented["segmented_sessions"][i][1] =
                    <<"session", TrailingText(grouped["sessions"][i][1])>>

\* C8 as amended: for a day whose partitioning yields at least one block, the
\* body of the session block is the whole first sub-header-matching line of
\* the day segment; that is the whole weekday line when it matches a marker.
C8_SessionTextIsFirstHeaderLine ==
    Segmented =>
        \A i \in 1..Len(grouped["sessions"]) :
            LET day == grouped["sessions"][i]
                out == segmented["segmented_sessions"][i]
            IN  Len(Blocks(day)) >= 1 =>
                    /\ out[1] = <<"session", FirstHeaderLine(day)>>
                    /\ (segment_regex(day[1]) => out[1][2] = day[1])

C8_Witness ==
    /\ pc = "segmented"
    /\ \E i \in 1..Len(grouped["sessions"]) :
          /\ grouped["sessions"][i][1] = "Monday (Session One)"
          /\ Len(Blocks(grouped["sessions"][i])) >= 1
          /\ segmented["segmented_sessions"][i][1] = <<"session", "Monday (Session One)">>

(***************************************************************************)
(* Properties of the date resolver.                                        *)
(***************************************************************************)
\* the event of sessions_to_json_records_by_day and the range it extracts
EventArgs == [k \in {"slug", "title"} \cap DOMAIN segmented |-> segmented[k]]

\* the resolved start date of a run that did not raise
ResolvedDay ==
    ResolveStart(segmented, extract_date_range_from_slug_or_title(EventArgs), today).theday

\* the start date was resolved from the slug, the title or the publish date
FromPostData ==
    \/ extract_date_range_from_slug_or_title(EventArgs).kind = "range"
    \/ "post_date" \in DOMAIN segmented

DayCount == Len(segmented["segmented_sessions"])

RecordDate(i) == ParseDate(records[i]["date"]).ord

\* C3 as claimed: the first record's date is the resolved start date itself
\* and record i is dated start + i days, whichever weekday start falls on.
C3_FirstDateIsStart ==
    Recorded /\ FromPostData =>
        \A i \in 1..Len(records) : records[i]["date"] = IsoFormat(ResolvedDay + (i - 1))

\* C3 as amended: the first record's date is the Monday of the ISO week that
\* contains the resolved start date (the start date itself exactly when it is
\* a Monday), and record i is dated that Monday + i days.
C3_FirstDateIsMondayOfWeek ==
    Recorded /\ Len(records) >= 1 =>
        \A range \in {extract_date_range_from_slug_or_title(EventArgs)} :
            range.kind = "range" \/ "post_date" \in DOMAIN segmented =>
                \A start \in {ResolveStart(segmented, range, today).theday},
                   first \in {RecordDate(1)} :
                    /\ isoweekday(first) = 1
                    /\ first <= start
                    /\ start - first <= 6
                    /\ (first = start) = (isoweekday(start) = 1)
                    /\ \A i \in 1..Len(records) : RecordDate(i) = first + (i - 1)

C3_Witness ==
    /\ pc = "records"
    /\ FromPostData
    /\ Len(records) >= 2
    /\ isoweekday(ResolvedDay) = 3
    /\ RecordDate(1) = ResolvedDay - 2

\* C4: one record per segmented day, in segment order, record i (0-based)
\* dated week_start + (i + 1) days with week_start = start - isoweekday(start)
\* days; consecutive records are one calendar day apart.
C4_DatesByPosition ==
    Recorded =>
        /\ Len(records) = DayCount
        /\ \A start \in {ResolvedDay} :
           \A week_start \in {start - isoweekday(start)} :
           \A i \in 1..DayCount :
              /\ records[i]["date"] = IsoFormat(week_start + ((i - 1) + 1))
              /\ [k \in DOMAIN records[i] \ {"date"} |-> records[i][k]] =
                    DayDict(segmented["segmented_sessions"][i])
        /\ \A i \in 1..(DayCount - 1) : RecordDate(i + 1) - RecordDate(i) = 1

C4_Witness ==
    /\ pc = "records"
    /\ Len(records) >= 2
    /\ records[1]["date"] = "2024-04-01"
    /\ records[2]["date"] = "2024-04-02"

\* the date the priority chain slug, title, publish date, current date selects
SlugRange ==
    IF "slug" \in DOMAIN segmented
    THEN extract_date_range_from_slug_or_title([slug |-> segmented["slug"]])
    ELSE NoRange

TitleRange ==
    IF "title" \in DOMAIN segmented
    THEN extract_date_range_from_slug_or_title([title |-> segmented["title"]])
    ELSE NoRange

PriorityDay ==
    IF SlugRange.kind = "range" THEN SlugRange.start
    ELSE IF TitleRange.kind = "range" THEN TitleRange.start
    ELSE IF "post_date" \in DOMAIN segmented THEN ParseDate(segmented["post_date"]).ord
    ELSE today

\* C5: the date source used is the first of slug, title, publish date,
\* current date that yields a valid date; a slug without a (valid) date
\* pattern falls through to the title's range before the publish date.
C5_StrictPriorityChain ==
    Recorded /\ Len(records) >= 1 =>
        records[1]["date"] = IsoFormat(PriorityDay - isoweekday(PriorityDay) + 1)

\* C6: a post without weekday markers passes the whole chain without raising
\* and yields an empty record list, whatever its slug, title and publish date.
C6_NoMarkersNeverFails ==
    Markers = {} =>
        /\ pc # "failed"
        /\ (pc = "cleaned" => cleaned = <<>>)

(***************************************************************************)
(* Properties of extract_date_range_from_slug_or_title.                    *)
(***************************************************************************)
\* C9: the extraction never raises: it returns a pair of dates or
\* (None, None), and (None, None) when there is no input at all.
C9_ExtractNeverRaises ==
    epc = "done" =>
        /\ result.kind \in {"range", "none"}
        /\ (ExtractText(args) = "" => result = NoRange)

\* C10: a returned date range has start <= end.
C10_StartNotAfterEnd ==
    epc = "done" /\ result.kind = "range" => result.start <= result.end

(***************************************************************************)
(* Properties of clean_sessions_df_records.                                *)
(***************************************************************************)
Cleaned == pc = "cleaned"

\* C11: an input record whose session field is absent, None or the empty
\* string gets the session "Rest Day".
C11_EmptySessionIsRestDay ==
    Cleaned =>
        \A i \in 1..Len(records) :
            Get(records[i], "session", None) \in {None, ""} =>
                cleaned[i]["session"] = "Rest Day"

\* C12: every cleaned record of the pipeline has exactly the keys date,
\* session, warm_up, segment_a .. segment_e.
C12_CanonicalKeySet ==
    Cleaned =>
        \A i \in 1..Len(cleaned) :
            DOMAIN cleaned[i] = {"date", "session"} \cup expected_fields

\* the source label of each of the six fields
SourceLabel(field) ==
    CASE field = "warm_up" -> "Suggested Warm-Up"
      [] field = "segment_a" -> "A." [] field = "segment_b" -> "B."
      [] field = "segment_c" -> "C." [] field = "segment_d" -> "D."
      [] field = "segment_e" -> "E."

\* C13: every cleaned record has the six fields warm_up, segment_a ..
\* segment_e; a field holds the input value under its source label when the
\* label is present with a value, the empty string otherwise (absent or
\* None); no output value is None.
C13_SixFieldsFromLabels ==
    Cleaned =>
        /\ Len(cleaned) = Len(records)
        /\ \A i \in 1..Len(cleaned) :
            /\ expected_fields \subseteq DOMAIN cleaned[i]
            /\ \A f \in expected_fields :
                   cleaned[i][f] =
                       IF Get(records[i], SourceLabel(f), None) = None THEN ""
                       ELSE records[i][SourceLabel(f)]
            /\ \A k \in DOMAIN cleaned[i] : cleaned[i][k] # None

\* a record with a label carrying text, a label carrying None and absent
\* labels has been cleaned
C13_Witness ==
    /\ Cleaned /\ Len(records) = 1
    /\ DOMAIN records[1] = {"date", "session", "Suggested Warm-Up", "A.", "E."}
    /\ records[1]["A."] = None
    /\ cleaned[1]["segment_e"] = "core"
    /\ cleaned[1]["segment_a"] = ""
    /\ cleaned[1]["segment_b"] = ""

(***************************************************************************)
(* Properties of the persistence handlers.                                 *)
(***************************************************************************)
Invocations == 1..MaxInvocations

Done(i) == inv[i].pc = "done"

IsDump(i) == inv[i].event.handler = "dump_post_to_bucket"

IsSave(i) == inv[i].event.handler = "save_sessions_to_bucket"

\* the invocations that have stored an object under path
PutsTo(path) == {i \in Invocations : inv[i].path = path /\ inv[i].put = "ok"}

Healthy == ~s3_faulty /\ ~ddb_faulty

\* C14: a persistence handler invoked twice in sequence with the same
\* (valid) input and healthy stores puts exactly once: the second invocation
\* writes nothing, the object exists under the target path, and both return
\* the same payload.
C14_SecondInvocationWritesNothing ==
    Healthy /\ ~overlapped =>
        \A i, j \in Invocations :
            /\ i < j /\ Done(i) /\ Done(j)
            /\ inv[i].event = inv[j].event
            /\ inv[i].response.kind = "success"
            => /\ inv[j].put = ""
               /\ Cardinality(PutsTo(inv[i].path)) = 1
               /\ inv[i].path \in DOMAIN bucket
               /\ inv[j].response = inv[i].response

\* dump_post_to_bucket has been invoked twice in sequence with the same post:
\* the first invocation has put, the second was stopped by check
C14_Witness ==
    /\ Healthy /\ ~overlapped /\ table_name # ""
    /\ Done(1) /\ Done(2) /\ IsDump(1)
    /\ inv[1].event = inv[2].event
    /\ inv[1].put = "ok" /\ inv[2].checked = "yes"

C16_SuccessLeavesRecord ==
    [][table_name # "" /\ ~ddb_faulty =>
        \A i \in Invocations :
            /\ ~Done(i) /\ inv'[i].pc = "done" /\ inv'[i].event.handler = "dump_post_to_bucket"
            /\ inv'[i].response.kind = "success"
            => inv'[i].key \in DOMAIN table']_vars

\* an invocation has found the object without a record and has created the
\* record without writing
C16_Witness ==
    /\ table_name # "" /\ ~ddb_faulty
    /\ \E i \in Invocations :
        /\ Done(i) /\ IsDump(i) /\ inv[i].checked = "no" /\ inv[i].exists = "yes"
        /\ inv[i].put = "" /\ inv[i].mark = "ok"
        /\ inv[i].key \in DOMAIN table

\* C17: after save_sessions_to_bucket has written a batch, with a configured
\* and healthy idempotency store, the record keyed by
\* generate_key(operation name, weekly path) exists.
C17_BatchWriteLeavesRecord ==
    table_name # "" /\ ~ddb_faulty =>
        \A i \in Invocations :
            Done(i) /\ IsSave(i) /\ inv[i].put = "ok" =>
                generate_key("save_sessions_to_bucket", inv[i].path) \in DOMAIN table

\* C18: non-overlapping invocations of dump_post_to_bucket for the same post
\* put at most once, whatever calls of the two stores fail.
C18_AtMostOnePut ==
    ~overlapped =>
        \A i \in Invocations : IsDump(i) => Cardinality(PutsTo(inv[i].path)) <= 1

\* C19: with a healthy object store, non-overlapping invocations of
\* dump_post_to_bucket for the same post put at most once, whatever the
\* idempotency store does.
C19_ExistenceCheckGuards ==
    ~s3_faulty /\ ~overlapped =>
        \A i \in Invocations : IsDump(i) => Cardinality(PutsTo(inv[i].path)) <= 1

\* a second invocation got nothing from the idempotency store and was
\* stopped by the existence check
C19_Witness ==
    /\ ~s3_faulty /\ ~overlapped
    /\ \E i, j \in Invocations :
        /\ i < j /\ Done(i) /\ Done(j) /\ IsDump(i) /\ inv[i].event = inv[j].event
        /\ inv[i].put = "ok"
        /\ inv[j].checked \in {"failed", "unconfigured"}
        /\ inv[j].exists = "yes" /\ inv[j].put = ""

\* invocations i and j of dump_post_to_bucket for the same key have both
\* passed the two checks and have both put
BothPut(i, j) ==
    /\ i # j /\ IsDump(i) /\ inv[i].event = inv[j].event
    /\ inv[i].checked = "no" /\ inv[j].checked = "no"
    /\ inv[i].exists = "no" /\ inv[j].exists = "no"
    /\ inv[i].put = "ok" /\ inv[j].put = "ok"

\* C20: two concurrent invocations for the same key can both pass the two
\* checks and both put; when both have finished, the object exists at the
\* path and the idempotency record exists.
C20_DoublePutConverges ==
    [][table_name # "" /\ Healthy =>
        \A i, j \in Invocations :
            BothPut(i, j) /\ ~Done(j) /\ Done(i) /\ inv'[j].pc = "done" =>
                /\ inv[i].path \in DOMAIN bucket'
                /\ inv[i].key \in DOMAIN table']_vars

\* both invocations, starting from empty stores, have passed the two checks
\* before either wrote, have both put, and have finished
C20_Witness ==
    /\ table_name # "" /\ Healthy /\ overlapped
    /\ BothPut(1, 2) /\ Done(1) /\ Done(2)
    /\ DOMAIN bucket = {inv[1].path}
    /\ inv[1].key \in DOMAIN table

\* C21: check returns true only if a live record exists for the key: a record
\* whose ttl has passed and that the table has not removed yet does not make
\* check return true.
C21_CheckOnlyLiveRecord ==
    [][\A i \in Invocations :
            inv[i].pc = "check" /\ inv'[i].checked = "yes" =>
                /\ inv[i].key \in DOMAIN table
                /\ table[inv[i].key] = "live"]_vars

\* C23: check fails open: when the table name is unconfigured or get_item
\* raises, check returns false without raising, so the invocation goes on to
\* the existence check with no response yet.
C23_CheckFailsOpen ==
    [][\A i \in Invocations :
            /\ inv[i].pc = "check" /\ inv'[i] # inv[i]
            /\ table_name = "" \/ inv'[i].checked = "failed"
            => /\ inv'[i].checked = (IF table_name = "" THEN "unconfigured" ELSE "failed")
               /\ inv'[i].pc = "exists"
               /\ inv'[i].response = NoResponse]_vars

\* get_item has raised in the check of an invocation, which went on to the
\* existence check and stored the object
C23_Witness ==
    \E i \in Invocations :
        /\ IsDump(i) /\ Done(i)
        /\ inv[i].checked = "failed" /\ inv[i].exists = "no" /\ inv[i].put = "ok"
        /\ inv[i].response.kind = "success"

\* C24: mark_complete fails open: when the put of dump_post_to_bucket
\* succeeded and the write of the record raises or the table is unconfigured,
\* the handler still returns the post as a success outcome.
C24_MarkCompleteFailsOpen ==
    \A i \in Invocations :
        IsDump(i) /\ inv[i].put = "ok" /\ inv[i].mark \in {"failed", "unconfigured"} =>
            /\ Done(i)
            /\ inv[i].response = Success(inv[i].event.post, <<>>)

\* put_item has raised after a successful put and the post was returned
C24_Witness ==
    \E i \in Invocations :
        /\ IsDump(i) /\ inv[i].put = "ok" /\ inv[i].mark = "failed"
        /\ inv[i].response.kind = "success" /\ inv[i].key \notin DOMAIN table

\* C25 as stated: with a configured and healthy store, check returns true
\* exactly when mark_complete has returned for the key before: false on a
\* store that never got the record, true at every later check.
C25_EveryLaterCheckTrue ==
    [][table_name # "" /\ ~ddb_faulty =>
        \A i \in Invocations :
            inv[i].pc = "check" /\ inv'[i] # inv[i] =>
                (inv'[i].checked = "yes" <=>
                    \E j \in Invocations : inv[j].key = inv[i].key /\ inv[j].mark = "ok")]_vars

\* C25 amended: with a configured and healthy store, check returns true
\* exactly when the table holds a record for the key; mark_complete puts the
\* record of its own key in the table and touches no other key; a record
\* leaves the table only when the table removes it after its ttl has passed.
C25_CheckTrueWhileRecordHeld ==
    [][table_name # "" /\ ~ddb_faulty =>
        /\ \A i \in Invocations :
            /\ inv[i].pc = "check" /\ inv'[i] # inv[i] =>
                    (inv'[i].checked = "yes" <=> inv[i].key \in DOMAIN table)
            /\ inv[i].pc = "mark" /\ inv'[i] # inv[i] =>
                    /\ inv'[i].mark = "ok"
                    /\ inv[i].key \in DOMAIN table'
                    /\ DOMAIN table' \ {inv[i].key} = DOMAIN table \ {inv[i].key}
        /\ \A k \in DOMAIN table \ DOMAIN table' : table[k] = "expired"]_vars

\* with a configured and healthy store the first invocation found no record
\* and marked its key complete, and a later invocation for the same key was
\* answered true while the table held the record
C25_Witness ==
    /\ table_name # "" /\ ~ddb_faulty /\ ~overlapped
    /\ inv[1].checked = "no" /\ inv[1].mark = "ok"
    /\ inv[2].key = inv[1].key /\ inv[2].checked = "yes"
    /\ inv[1].key \in DOMAIN table

\* C22: generate_key is deterministic and collision-free over pairs: the keys
\* of two (operation, identifier) pairs are equal when the pairs are equal,
\* and differ whenever the operation differs or the identifier differs.
C22_KeysEqualIffPairsEqual ==
    epc = "done" /\ Len(result) = 2 =>
        /\ args.first = args.second => result[1] = result[2]
        /\ (args.first.operation # args.second.operation
                \/ args.first.identifier # args.second.identifier)
            => result[1] # result[2]

\* C26: save_sessions_to_bucket with a batch in which no record has a date,
\* the empty batch included, makes no existence check and no put, and its
\* outcome is the error response of type ValidationError.
C26_UndatedBatchIsValidationError ==
    \A i \in Invocations :
        /\ inv[i].pc # "idle" /\ IsSave(i)
        /\ \A n \in 1..Len(inv[i].event.records) :
                "date" \notin DOMAIN inv[i].event.records[n]
        => /\ Done(i)
           /\ inv[i].exists = "" /\ inv[i].put = ""
           /\ inv[i].response = ErrorResponse("ValidationError")

\* the empty batch and the batch of one record without a date have both been
\* handed to save_sessions_to_bucket
C26_Witness ==
    /\ \E i \in Invocations :
        /\ IsSave(i) /\ Done(i) /\ inv[i].event.records = <<>>
        /\ inv[i].response.type = "ValidationError"
    /\ \E i \in Invocations :
        /\ IsSave(i) /\ Done(i) /\ Len(inv[i].event.records) = 1
        /\ inv[i].response.type = "ValidationError"

\* C27: in dump_post_to_bucket a failure of the put is the only error
\* outcome, and completion is recorded only after a successful write: when
\* the put raises the outcome is an error and mark_complete is not called,
\* and mark_complete is never called before the put of its invocation.
C27_WriteFailureOnlyError ==
    \A i \in Invocations :
        IsDump(i) =>
            /\ Done(i) =>
                (inv[i].response.kind = "error" <=> inv[i].put = "raised")
            /\ inv[i].put = "raised" => inv[i].mark = ""
            /\ inv[i].mark # "" => inv[i].put = "ok" \/ inv[i].exists = "yes"
            /\ inv[i].pc = "put" => inv[i].mark = ""

\* C30: from empty stores, under every interleaving of invocations and every
\* store failure, a record for generate_key('dump_post_to_bucket', path) is
\* in the table only if an object is in the bucket at path.
C30_RecordImpliesObject ==
    /\ \A k \in DOMAIN table :
            \E i \in Invocations : IsDump(i) /\ inv[i].key = k
    /\ \A i \in Invocations :
            IsDump(i) /\ inv[i].key \in DOMAIN table => inv[i].path \in DOMAIN bucket

\* with both stores failing at times and overlapping invocations, a record
\* has been written, by an invocation whose existence check had failed
C30_Witness ==
    /\ s3_faulty /\ ddb_faulty /\ overlapped
    /\ \E i \in Invocations :
        /\ IsDump(i) /\ inv[i].exists = "failed" /\ inv[i].mark = "ok"
        /\ inv[i].key \in DOMAIN table /\ inv[i].path \in DOMAIN bucket

\* C28: metadata is carried forward losslessly: every one of post_date, slug
\* and title that the post has is a key of the results of
\* group_post_content_by_day and of segment_days with the value it has in
\* the post, the empty string included.
C28_MetadataCarriedForward ==
    \A k \in MetaKeys \cap DOMAIN post :
        /\ pc # "post" => k \in DOMAIN grouped /\ grouped[k] = post[k]
        /\ pc \in {"segmented", "records", "cleaned"} =>
                k \in DOMAIN segmented /\ segmented[k] = post[k]

\* C29: segment_days gives a day the rest-day sentinel exactly when no line
\* of the day segment matches a sub-header marker; a day with at least one
\* matching line, exactly one included, is not collapsed to the sentinel.
C29_SentinelIffNoMarker ==
    pc = "segmented" =>
        \A i \in 1..Len(grouped.sessions) :
            \A hit \in {SegmentHits(grouped.sessions[i])} :
                segmented.segmented_sessions[i] = <<<<"session", "rest day">>>>
                    <=> \A n \in DOMAIN hit : ~hit[n]

====
